---------------------------- MODULE Spec2Model ----------------------------
(***************************************************************************)
(* State-machine model of the Old Train Station Clock controller           *)
(* (src/src/clock.py, started by src/src/main.py).                         *)
(*                                                                         *)
(* Text (console lines, URLs, time strings, JSON string values) is a       *)
(* sequence of one-character strings, so that strip(), lower(), split(),   *)
(* startswith() and int() are computed the way the code computes them.     *)
(***************************************************************************)
EXTENDS Integers, Sequences, FiniteSets, TLC

(***************************************************************************)
(* Bounds of the model (not program constants).                            *)
(***************************************************************************)
\* environment events (interrupts, power losses, failed writes, raised
\* errors) in one behaviour
MaxEvents == 2
\* console commands run in one behaviour (a line that is rejected, or whose
\* command only prints, changes nothing and is not counted)
MaxCommands == 2
\* calls of tick() begun in one behaviour
MaxTicks == 3
\* minute-boundary sleeps in one behaviour
MaxMinutes == 1

(***************************************************************************)
(* Program constants.                                                      *)
(***************************************************************************)
\* 12 * 60, clock.py lines 179, 248, 383, 452
FaceMinutes == 720
\* range(2), clock.py line 241: two step pulses move the hand one minute
StepsPerMinute == 2
\* the physical hand is counted in step pulses
FaceSteps == FaceMinutes * StepsPerMinute
\* None, the initial value of last_sync_hour (clock.py line 468)
NoHour == -1

(***************************************************************************)
(* Text helpers.                                                           *)
(***************************************************************************)
UpperChars == <<"A","B","C","D","E","F","G","H","I","J","K","L","M",
                "N","O","P","Q","R","S","T","U","V","W","X","Y","Z">>
LowerChars == <<"a","b","c","d","e","f","g","h","i","j","k","l","m",
                "n","o","p","q","r","s","t","u","v","w","x","y","z">>
DigitChars == <<"0","1","2","3","4","5","6","7","8","9">>

\* str.lower() on one character
LowerChar(c) ==
    IF \E i \in 1..26 : UpperChars[i] = c
    THEN LowerChars[CHOOSE i \in 1..26 : UpperChars[i] = c]
    ELSE c

\* str.lower()
Lower(s) == [i \in 1..Len(s) |-> LowerChar(s[i])]

\* s[n:]
Drop(s, n) == IF n >= Len(s) THEN <<>> ELSE SubSeq(s, n + 1, Len(s))

\* str.strip(): leading and trailing blanks removed
RECURSIVE StripLeft(_)
StripLeft(s) ==
    IF s # <<>> /\ Head(s) = " " THEN StripLeft(Tail(s)) ELSE s

RECURSIVE StripRight(_)
StripRight(s) ==
    IF s # <<>> /\ s[Len(s)] = " "
    THEN StripRight(SubSeq(s, 1, Len(s) - 1))
    ELSE s

Strip(s) == StripRight(StripLeft(s))

\* str.startswith(p)
StartsWith(s, p) == Len(s) >= Len(p) /\ SubSeq(s, 1, Len(p)) = p

\* str.split(sep) for a one-character separator
RECURSIVE SplitFrom(_, _, _)
SplitFrom(s, sep, cur) ==
    IF s = <<>> THEN <<cur>>
    ELSE IF Head(s) = sep
         THEN <<cur>> \o SplitFrom(Tail(s), sep, <<>>)
         ELSE SplitFrom(Tail(s), sep, Append(cur, Head(s)))

Split(s, sep) == SplitFrom(s, sep, <<>>)

IsDigit(c) == \E i \in 1..10 : DigitChars[i] = c
DigitVal(c) == (CHOOSE i \in 1..10 : DigitChars[i] = c) - 1

RECURSIVE DigitsVal(_, _)
DigitsVal(s, acc) ==
    IF s = <<>> THEN acc ELSE DigitsVal(Tail(s), 10 * acc + DigitVal(Head(s)))

\* the text after an optional sign
Unsigned(s) == IF s # <<>> /\ Head(s) \in {"+", "-"} THEN Tail(s) ELSE s

\* int(text) succeeds: blanks around, an optional sign, at least one digit
IsIntText(text) ==
    LET s == Unsigned(Strip(text))
    IN  s # <<>> /\ \A i \in 1..Len(s) : IsDigit(s[i])

\* int(text), for a text on which it succeeds
IntOf(text) ==
    LET s == Strip(text)
        v == DigitsVal(Unsigned(s), 0)
    IN  IF s # <<>> /\ Head(s) = "-" THEN 0 - v ELSE v

(***************************************************************************)
(* TimeValue and the position codec.                                       *)
(***************************************************************************)
TimeValue(h, m, s) == [hours |-> h, minutes |-> m, seconds |-> s]

\* a variant of line 179 without the reduction to the face
calculate_display_minutes_unreduced(time_val) ==
    (time_val.hours * 60) + time_val.minutes

calculate_display_minutes(time_val) ==
    ((time_val.hours * 60) + time_val.minutes) % FaceMinutes

\* a variant of lines 224-228 without lines 225-226: hour 0 stays 0
display_minutes_to_time_zero_hour(display_minutes) ==
    TimeValue((display_minutes \div 60) % 12, display_minutes % 60, 0)

display_minutes_to_time(display_minutes) ==
    LET h == (display_minutes \div 60) % 12
    IN  TimeValue(IF h = 0 THEN 12 ELSE h, display_minutes % 60, 0)

\* parse_time_string: ok = FALSE stands for the ValueError it raises
ParseFail == [ok |-> FALSE, tv |-> TimeValue(0, 0, 0)]

\* a variant of parse_time_string without the range checks of lines 205-210
parse_time_string_unchecked(value) ==
    LET parts == Split(value, ":")
        n     == Len(parts)
    IN  IF n < 2 \/ n > 3 THEN ParseFail
        ELSE IF \E i \in 1..n : ~ IsIntText(parts[i]) THEN ParseFail
        ELSE [ok |-> TRUE,
              tv |-> TimeValue(IntOf(parts[1]), IntOf(parts[2]),
                               IF n = 3 THEN IntOf(parts[3]) ELSE 0)]

parse_time_string(value) ==
    LET parts == Split(value, ":")
        n     == Len(parts)
    IN  IF n < 2 \/ n > 3 THEN ParseFail
        ELSE IF ~ IsIntText(parts[1]) \/ ~ IsIntText(parts[2]) THEN ParseFail
        ELSE IF n = 3 /\ ~ IsIntText(parts[3]) THEN ParseFail
        ELSE LET hours   == IntOf(parts[1])
                 minutes == IntOf(parts[2])
                 seconds == IF n = 3 THEN IntOf(parts[3]) ELSE 0
             IN  IF ~ (0 <= hours /\ hours <= 23) THEN ParseFail
                 ELSE IF ~ (0 <= minutes /\ minutes <= 59) THEN ParseFail
                 ELSE IF ~ (0 <= seconds /\ seconds <= 59) THEN ParseFail
                 ELSE [ok |-> TRUE, tv |-> TimeValue(hours, minutes, seconds)]

(***************************************************************************)
(* The persisted record.  A JSON value is [t, n, s]: t its type, n its     *)
(* number, s its text.  A file is missing, garbage (truncated or not       *)
(* JSON), or holds a JSON value: an object with the two fields (each       *)
(* possibly absent), or a value that is no object.                         *)
(***************************************************************************)
JAbsent == [t |-> "absent", n |-> 0, s |-> <<>>]
JNull   == [t |-> "null",   n |-> 0, s |-> <<>>]
JList   == [t |-> "list",   n |-> 0, s |-> <<>>]
JInt(n) == [t |-> "int",    n |-> n, s |-> <<>>]
JStr(s) == [t |-> "str",    n |-> 0, s |-> s]

FileOf(kind, d, u) == [kind |-> kind, display |-> d, url |-> u]
FileMissing == FileOf("missing", JAbsent, JAbsent)
FileGarbage == FileOf("garbage", JAbsent, JAbsent)
\* the JSON document  null
FileNull    == FileOf("null", JAbsent, JAbsent)
\* the JSON document  []
FileList    == FileOf("list", JAbsent, JAbsent)

DEFAULT_TIME_SERVICE_URL ==
    <<"h","t","t","p",":","/","/","w","o","r","l","d","t","i","m","e","a","p","i",
      ".","o","r","g","/","a","p","i","/","t","i","m","e","z","o","n","e","/",
      "C","E","T">>

\* json.dumps(configuration) as store_configuration writes it
RecordOf(d, u) == FileOf("object", JInt(d), JStr(u))

\* int(configuration["display"]): "ok", or the exception raised
IntConv(j) ==
    CASE j.t = "int" -> "ok"
      [] j.t = "str" -> IF IsIntText(j.s) THEN "ok" ELSE "ValueError"
      [] OTHER       -> "TypeError"

IntConvVal(j) == IF j.t = "int" THEN j.n ELSE IntOf(j.s)

\* load_configuration on file f with the fields as __init__ set them:
\* exc is "none", or the exception that leaves load_configuration
LoadResult(exc, d, u) == [exc |-> exc, display |-> d, url |-> u]

load_configuration(f, d0, u0) ==
    CASE f.kind = "missing" -> LoadResult("none", 0, DEFAULT_TIME_SERVICE_URL)
      [] f.kind = "garbage" -> LoadResult("none", 0, DEFAULT_TIME_SERVICE_URL)
      [] f.kind = "null"    -> LoadResult("TypeError", d0, u0)
      [] f.kind = "list"    -> LoadResult("none", d0, u0)
      [] OTHER ->
           LET conv == IF f.display.t = "absent" THEN "ok" ELSE IntConv(f.display)
               d    == IF f.display.t = "absent" THEN d0 ELSE IntConvVal(f.display)
               u    == IF f.url.t = "absent" THEN u0 ELSE f.url.s
           IN  CASE conv = "ok"         -> LoadResult("none", d, u)
                 [] conv = "ValueError" ->
                      LoadResult("none", 0, DEFAULT_TIME_SERVICE_URL)
                 [] OTHER               -> LoadResult("TypeError", d0, u0)


(***************************************************************************)
(* Inputs of the model.                                                    *)
(***************************************************************************)
UrlX == <<"h","t","t","p",":","/","/","x">>

\* persisted records found at power-on
InitFiles ==
    { RecordOf(717, UrlX),
      RecordOf(1437, UrlX),
      RecordOf(0 - 3, UrlX) }

\* persisted records of every shape load_configuration tells apart
LoadFiles ==
    { FileOf("object", d, u) :
        d \in { JAbsent, JNull, JList, JInt(45), JInt(1437), JInt(0 - 3),
                JStr(<<"b","a","d">>), JStr(<<"4","5">>) },
        u \in { JAbsent, JStr(UrlX) } }
    \cup { FileMissing, FileGarbage, FileNull, FileList }

\* what the RTC holds at power-on
InitTimes == { TimeValue(11, 58, 30) }

\* the time a successful sync sets
ServerTimes == { TimeValue(11, 59, 50) }

\* lines typed at the console prompt
ConsoleLines ==
    { <<"s">>,
      <<>>,
      <<"b","o","g","u","s">>,
      <<"t"," ","1","1",":","5","8">>,
      <<"t"," ","2","3",":","5","8",":","0","9">>,
      <<"t"," ","2","4",":","0","0">>,
      <<"t"," ","1","1">>,
      <<"t"," ","1","1",":","x","x">>,
      <<"+","2">>, <<"+","0">>, <<"+","-","1">>, <<"+","x">>,
      <<"-","2">>, <<"-","0">>, <<"-","-","1">>, <<"-","x">>,
      <<"z"," ","h","t","t","p",":","/","/","h","/","A">>,
      <<"z"," ","f","t","p",":","/","/","h">>,
      <<"z"," ","l","i","s","t">>,
      <<"s","y","n","c">>,
      <<"s","a","v","e">>,
      <<"R","u","n"," ">>,
      <<"q">> }

(***************************************************************************)
(* State.                                                                  *)
(***************************************************************************)
VARIABLES
    \* fields of the Clock object
    current_display_minutes, time_service_url, interactive_mode,
    \* hardware: the RTC's time and the three output pins (1 = on)
    rtc, pin_nenabled, pin_step, pin_led,
    \* control: the activations of start() and interactive_console(), the
    \* position of the innermost one, and its local variables
    stack, pc, last_sync_hour, current_timevalue, target_display_minutes,
    adv_minutes, adv_i,
    \* environment: the configuration file, the physical hand (in step
    \* pulses), and the counters the bounds cap
    file, phys, events, ncommands, nticks, nminutes,
    \* history (read by the properties only): the last write attempt; the
    \* walk, the tick and the advance command in progress; the accepted
    \* quit; the iteration of the Running loop in progress (its number, the
    \* hour it read, the hour the iteration before read, the hour read by the
    \* iteration of the last sync attempt before it, whether it attempted a
    \* sync); the last power loss
    wr, wk, tk, cmd0, quit0, it, lost,
    \* output: what the last status query or conversion printed
    out

objVars  == <<current_display_minutes, time_service_url, interactive_mode>>
hwVars   == <<rtc, pin_nenabled, pin_step, pin_led>>
ctlVars  == <<stack, pc>>
locVars  == <<last_sync_hour, current_timevalue, target_display_minutes,
              adv_minutes, adv_i>>
envVars  == <<file, phys, events, ncommands, nticks, nminutes>>
histVars == <<wr, wk, tk, cmd0, quit0, it, lost, out>>
vars     == <<objVars, hwVars, ctlVars, locVars, envVars, histVars>>

NoTime == TimeValue(0, 0, 0)
\* history: the last write attempt's result and the position it was given
NoWrite == [res |-> "none", d |-> 0]
Null   == [on |-> FALSE]
\* nothing printed yet
NoOut  == [kind |-> "none"]

\* the physical hand's minute agrees with position d
Agrees(d, p) == p = (d % FaceMinutes) * StepsPerMinute

\* the position load_configuration yields from file f at construction
LoadedFrom(f) == load_configuration(f, 0, DEFAULT_TIME_SERVICE_URL)

\* history: the hand, the in-memory position and the persisted position
\* agree
InStep ==
    /\ Agrees(current_display_minutes, phys)
    /\ LoadedFrom(file).display = current_display_minutes

Init ==
    /\ file \in InitFiles
    /\ rtc \in InitTimes
    /\ phys = (LoadedFrom(file).display % FaceMinutes) * StepsPerMinute
    /\ current_display_minutes = 0
    /\ time_service_url = DEFAULT_TIME_SERVICE_URL
    /\ interactive_mode = FALSE
    /\ pin_nenabled = 1 /\ pin_step = 0 /\ pin_led = 1
    /\ stack = <<>> /\ pc = "off"
    /\ last_sync_hour = NoHour
    /\ current_timevalue = NoTime
    /\ target_display_minutes = 0
    /\ adv_minutes = 0 /\ adv_i = 0
    /\ events = 0 /\ ncommands = 0 /\ nticks = 0 /\ nminutes = 0
    /\ wr = NoWrite
    /\ wk = Null /\ tk = Null /\ cmd0 = Null /\ quit0 = Null /\ it = Null
    /\ lost = [on |-> FALSE, agreed |-> FALSE]
    /\ out = NoOut


(***************************************************************************)
(* Helpers of the actions.                                                 *)
(***************************************************************************)
Top == IF stack = <<>> THEN "none" ELSE stack[Len(stack)]
Pop(stk) == SubSeq(stk, 1, Len(stk) - 1)

ResetLocals ==
    /\ last_sync_hour' = NoHour
    /\ current_timevalue' = NoTime
    /\ target_display_minutes' = 0
    /\ adv_minutes' = 0
    /\ adv_i' = 0

TickPcs  == {"t_en", "t_on1", "t_off1", "t_on2", "t_off2", "t_dis", "t_inc",
             "t_store", "t_write", "t_ret"}
StorePcs == {"t_store", "c_store"}
WritePcs == {"t_write", "c_write"}

\* an event of the environment, counted against MaxEvents
Event == events < MaxEvents /\ events' = events + 1

\* where control goes when an exception leaves the innermost start():
\* to the except clauses of the console whose `run` called it (lines
\* 434-437), which go on to the loop test, or out of main.py
LeaveStart(stk) ==
    IF Len(stk) <= 1
    THEN [stack |-> <<>>, pc |-> "done"]
    ELSE [stack |-> Pop(stk), pc |-> "c_loop"]

(***************************************************************************)
(* main.py: construct the Clock (__init__, lines 42-61) and call start();   *)
(* an exception of the constructor is caught and reported by main.py       *)
(* (lines 26-30), which then ends.                                         *)
(***************************************************************************)
Boot ==
    /\ pc = "off"
    /\ LET r == load_configuration(file, 0, DEFAULT_TIME_SERVICE_URL)
       IN  /\ current_display_minutes' = r.display
           /\ time_service_url' = r.url
           /\ IF r.exc = "none"
              THEN stack' = <<"start">> /\ pc' = "s_read"
              ELSE stack' = <<>> /\ pc' = "failed"
    /\ interactive_mode' = FALSE
    /\ pin_nenabled' = 1 /\ pin_step' = 0 /\ pin_led' = 1
    /\ ResetLocals
    /\ wr' = NoWrite
    /\ wk' = Null /\ tk' = Null /\ cmd0' = Null /\ quit0' = Null /\ it' = Null
    /\ UNCHANGED <<rtc, envVars, lost, out>>

(***************************************************************************)
(* start(): the Running loop, lines 473-489.                               *)
(***************************************************************************)
\* a variant of line 478 that attempts a sync in every iteration
SyncDueAlways(hours, last) == hours = hours

\* line 478
SyncDue(hours, last) == hours # last

\* the target set_display_time computes (line 259) from the time start()
\* hands it (line 483)
WalkTarget(read) == calculate_display_minutes(read)

EnterWalk(read) ==
    /\ target_display_minutes' = WalkTarget(read)
    /\ wk' = [on |-> TRUE, p |-> current_display_minutes, n |-> 0,
              w |-> 0, failed |-> FALSE, agreed |-> InStep]

\* lines 474-478: read the RTC and decide whether to sync
StartRead ==
    /\ pc = "s_read"
    /\ current_timevalue' = rtc
    /\ it' = [on |-> TRUE,
              n |-> IF it.on THEN it.n + 1 ELSE 1,
              prev |-> IF it.on THEN it.cur ELSE NoHour,
              cur |-> rtc.hours,
              last |-> IF ~it.on THEN NoHour
                       ELSE IF it.synced THEN it.cur ELSE it.last,
              synced |-> FALSE,
              res |-> IF it.on THEN it.res ELSE "none"]
    /\ IF SyncDue(rtc.hours, last_sync_hour)
       THEN /\ pc' = "s_sync"
            /\ UNCHANGED <<target_display_minutes, wk>>
       ELSE /\ pc' = "s_walk"
            /\ EnterWalk(rtc)
    /\ UNCHANGED <<objVars, hwVars, stack, last_sync_hour, adv_minutes, adv_i,
                   envVars, wr, tk, cmd0, quit0, lost, out>>

\* what follows sync_rtc_online's return: line 480 and the call of line 483
\* in start(), lines 409-412 in the console
AfterSync ==
    IF pc = "s_sync"
    THEN /\ last_sync_hour' = current_timevalue.hours
         /\ pc' = "s_walk"
         /\ EnterWalk(current_timevalue)
         /\ UNCHANGED <<current_timevalue, adv_minutes, adv_i, stack>>
    ELSE /\ pc' = "c_loop"
         /\ UNCHANGED <<locVars, stack, wk>>

\* history: this iteration of the Running loop attempts a sync
Attempt == IF it.on THEN [it EXCEPT !.synced = TRUE] ELSE it

\* history: the attempt and what sync_rtc_online returned
AttemptWith(r) == IF it.on THEN [Attempt EXCEPT !.res = r] ELSE it

\* sync_rtc_online, lines 71-111: the request succeeds and the RTC is set
SyncOk ==
    /\ pc \in {"s_sync", "c_sync"}
    /\ \E t \in ServerTimes : rtc' = t
    /\ pin_led' = 0
    /\ AfterSync
    /\ it' = AttemptWith("ok")
    /\ UNCHANGED <<objVars, pin_nenabled, pin_step, envVars,
                   wr, tk, cmd0, quit0, lost, out>>

\* a variant of start() that records the hour of a sync only when the sync
\* succeeded, so that a failed one is tried again in the next iteration
SyncFailRetries ==
    /\ pc \in {"s_sync", "c_sync"}
    /\ pin_led' = 1
    /\ IF pc = "s_sync"
       THEN /\ pc' = "s_walk"
            /\ EnterWalk(current_timevalue)
            /\ UNCHANGED <<last_sync_hour, current_timevalue, adv_minutes,
                           adv_i, stack>>
       ELSE /\ pc' = "c_loop"
            /\ UNCHANGED <<locVars, stack, wk>>
    /\ it' = AttemptWith("failed")
    /\ UNCHANGED <<objVars, rtc, pin_nenabled, pin_step, envVars,
                   wr, tk, cmd0, quit0, lost, out>>

\* sync_rtc_online, lines 71-76 and 113-115: the request or the parsing
\* fails inside the try
SyncFail ==
    /\ pc \in {"s_sync", "c_sync"}
    /\ pin_led' = 1
    /\ AfterSync
    /\ it' = AttemptWith("failed")
    /\ UNCHANGED <<objVars, rtc, pin_nenabled, pin_step, envVars,
                   wr, tk, cmd0, quit0, lost, out>>

\* sync_rtc_online, line 70: the import, outside the try, raises
SyncRaise ==
    /\ pc \in {"s_sync", "c_sync"}
    /\ Event
    /\ IF pc = "s_sync"
       THEN /\ stack' = LeaveStart(stack).stack
            /\ pc' = LeaveStart(stack).pc
       ELSE /\ stack' = stack
            /\ pc' = "c_loop"
    /\ ResetLocals
    /\ wk' = Null /\ it' = Null
    /\ UNCHANGED <<objVars, hwVars, file, phys, ncommands, nticks, nminutes,
                   wr, tk, cmd0, quit0, lost, out>>

\* history: the state a call of tick() starts from
TickEntry == [on |-> TRUE, d |-> current_display_minutes, p |-> phys,
              w |-> 0, failed |-> FALSE]

\* a variant of line 261 that walks only while the position is
\* numerically behind the target
WalkContinuesBehind(cur, target) == cur < target

\* set_display_time, line 261: the loop test
WalkContinues(cur, target) == cur # target

Walk ==
    /\ pc = "s_walk"
    /\ IF WalkContinues(current_display_minutes, target_display_minutes)
       THEN /\ nticks < MaxTicks
            /\ nticks' = nticks + 1
            /\ pc' = "t_en"
            /\ tk' = TickEntry
       ELSE /\ pc' = "s_sleep"
            /\ UNCHANGED <<nticks, tk>>
    /\ UNCHANGED <<objVars, hwVars, stack, locVars, file, phys, events,
                   ncommands, nminutes, wr, wk, cmd0, quit0, it, lost, out>>

\* the RTC after d more seconds
TimeAfter(t, d) ==
    LET total == (t.hours * 3600 + t.minutes * 60 + t.seconds + d) % 86400
    IN  TimeValue(total \div 3600, (total \div 60) % 60, total % 60)

\* lines 486-489: sleep to the next minute boundary
Sleep ==
    /\ pc = "s_sleep"
    /\ nminutes < MaxMinutes
    /\ nminutes' = nminutes + 1
    /\ LET delta == 60 - rtc.seconds
       IN  rtc' = IF delta > 0 THEN TimeAfter(rtc, delta) ELSE rtc
    /\ pc' = "s_read"
    /\ wk' = Null
    /\ UNCHANGED <<objVars, pin_nenabled, pin_step, pin_led, stack, locVars,
                   file, phys, events, ncommands, nticks, wr, tk, cmd0, quit0, it,
                   lost, out>>

(***************************************************************************)
(* tick(), lines 237-249, and store_configuration(), lines 124-135.        *)
(***************************************************************************)
\* line 237
TickEnable ==
    /\ pc = "t_en"
    /\ pin_nenabled' = 0
    /\ pc' = "t_on1"
    /\ UNCHANGED <<objVars, rtc, pin_step, pin_led, stack, locVars, envVars,
                   histVars>>

\* lines 242-243: a rising edge on the step line moves the hand one step
\* when the driver is enabled
TickStepOn ==
    /\ pc \in {"t_on1", "t_on2"}
    /\ pin_step' = 1
    /\ phys' = IF pin_nenabled = 0 THEN (phys + 1) % FaceSteps ELSE phys
    /\ pc' = IF pc = "t_on1" THEN "t_off1" ELSE "t_off2"
    /\ UNCHANGED <<objVars, rtc, pin_nenabled, pin_led, stack, locVars, file,
                   events, ncommands, nticks, nminutes, histVars>>

\* lines 244-245
TickStepOff ==
    /\ pc \in {"t_off1", "t_off2"}
    /\ pin_step' = 0
    /\ pc' = IF pc = "t_off1" THEN "t_on2" ELSE "t_dis"
    /\ UNCHANGED <<objVars, rtc, pin_nenabled, pin_led, stack, locVars, envVars,
                   histVars>>

\* line 247
TickDisable ==
    /\ pc = "t_dis"
    /\ pin_nenabled' = 1
    /\ pc' = "t_inc"
    /\ UNCHANGED <<objVars, rtc, pin_step, pin_led, stack, locVars, envVars,
                   histVars>>

\* line 248
NextPosition(d) == (d + 1) % FaceMinutes

\* a variant of tick() without line 249: the position is stored by no tick
TickIncrementNoStore ==
    /\ pc = "t_inc"
    /\ current_display_minutes' = NextPosition(current_display_minutes)
    /\ pc' = "t_ret"
    /\ UNCHANGED <<time_service_url, interactive_mode, hwVars, stack, locVars,
                   envVars, histVars>>

\* lines 248-249: the increment; store_configuration is called next
TickIncrement ==
    /\ pc = "t_inc"
    /\ current_display_minutes' = NextPosition(current_display_minutes)
    /\ pc' = "t_store"
    /\ UNCHANGED <<time_service_url, interactive_mode, hwVars, stack, locVars,
                   envVars, histVars>>

\* history: one more write attempt within h's scope
Attempted(h) == IF h.on THEN [h EXCEPT !.w = h.w + 1] ELSE h

\* line 129: the file is opened for writing
StoreOpen ==
    /\ pc \in StorePcs
    /\ pc' = IF pc = "t_store" THEN "t_write" ELSE "c_write"
    /\ wr' = [res |-> "pending", d |-> current_display_minutes]
    /\ wk' = Attempted(wk) /\ tk' = Attempted(tk)
    /\ cmd0' = Attempted(cmd0) /\ quit0' = Attempted(quit0)
    /\ UNCHANGED <<objVars, hwVars, stack, locVars, envVars, it, lost, out>>

\* where store_configuration's caller goes on: tick() returns (line 249);
\* the console command prints and the loop goes round
AfterStore == IF pc = "t_write" THEN "t_ret" ELSE "c_loop"

\* lines 130-132: written, flushed and closed
StoreDone ==
    /\ pc \in WritePcs
    /\ file' = RecordOf(current_display_minutes, time_service_url)
    /\ wr' = [wr EXCEPT !.res = "ok"]
    /\ pc' = AfterStore
    /\ UNCHANGED <<objVars, hwVars, stack, locVars, phys, events, ncommands,
                   nticks, nminutes, wk, tk, cmd0, quit0, it, lost, out>>

\* what a write that did not complete leaves of file f: the old content
\* (the file system commits on close) or a truncated file
Torn(f) == {f, FileGarbage}

\* a variant of lines 133-135 that lets the error leave store_configuration
\* and its callers
StoreFailRaises ==
    IF Top = "start" THEN LeaveStart(stack)
    ELSE [stack |-> stack, pc |-> "c_loop"]

\* where a failed store_configuration leaves control: lines 133-135 catch
\* the error and return False to the caller
StoreFailTo == [stack |-> stack, pc |-> AfterStore]

\* lines 129-135: the write fails
StoreFail ==
    /\ pc \in WritePcs
    /\ Event
    /\ file' \in Torn(file)
    /\ stack' = StoreFailTo.stack
    /\ pc' = StoreFailTo.pc
    /\ wr' = [wr EXCEPT !.res = "failed"]
    /\ tk' = IF tk.on THEN [tk EXCEPT !.failed = TRUE] ELSE tk
    /\ wk' = IF wk.on THEN [wk EXCEPT !.failed = TRUE] ELSE wk
    /\ UNCHANGED <<objVars, hwVars, locVars, phys, ncommands, nticks, nminutes,
                   cmd0, quit0, it, lost, out>>

\* tick() returns to its caller: set_display_time's loop (line 261) or the
\* console's advance loop (lines 367-368)
TickReturn ==
    /\ pc = "t_ret"
    /\ IF Top = "start"
       THEN /\ pc' = "s_walk"
            /\ wk' = [wk EXCEPT !.n = wk.n + 1]
            /\ UNCHANGED adv_i
       ELSE /\ pc' = "c_adv"
            /\ adv_i' = adv_i + 1
            /\ UNCHANGED wk
    /\ tk' = Null
    /\ UNCHANGED <<objVars, hwVars, stack, last_sync_hour, current_timevalue,
                   target_display_minutes, adv_minutes, envVars,
                   wr, cmd0, quit0, it, lost, out>>


(***************************************************************************)
(* interactive_console(), lines 327-437.                                   *)
(***************************************************************************)
\* lines 327-334, before the loop and outside its try
ConsoleEnter ==
    /\ pc = "c_enter"
    /\ interactive_mode' = TRUE
    /\ pc' = "c_loop"
    /\ UNCHANGED <<current_display_minutes, time_service_url, hwVars, stack,
                   locVars, envVars, histVars>>

\* line 336: the loop test
ConsoleLoop ==
    /\ pc = "c_loop"
    /\ pc' = IF interactive_mode THEN "c_input" ELSE "c_ret"
    /\ cmd0' = Null
    /\ UNCHANGED <<objVars, hwVars, stack, locVars, envVars,
                   wr, wk, tk, quit0, it, lost, out>>

\* lines 365 and 382
AdvanceAccepted(minutes) == minutes > 0
RetreatAccepted(minutes) == minutes > 0

\* line 398, with 'http' as the code spells it
UrlAccepted(u) == StartsWith(u, <<"h","t","t","p">>)

\* line 338: how the typed line becomes cmd
CommandText(line) == Lower(Strip(line))

Cmd(op, n, s) == [op |-> op, n |-> n, s |-> s]
Nop == Cmd("nop", 0, <<>>)

\* lines 340-432: the branch the command takes, with its argument
Command(line) ==
    LET cmd == CommandText(line)
    IN  IF cmd = <<>> THEN Nop
        ELSE IF cmd \in {<<"h">>, <<"h","e","l","p">>} THEN Nop
        ELSE IF cmd \in {<<"s">>, <<"s","t","a","t","u","s">>} THEN Nop
        ELSE IF StartsWith(cmd, <<"t"," ">>)
             THEN LET r == parse_time_string(Strip(Drop(cmd, 2)))
                  IN  IF r.ok
                      THEN Cmd("set", calculate_display_minutes(r.tv), <<>>)
                      ELSE Nop
        ELSE IF StartsWith(cmd, <<"+">>)
             THEN IF IsIntText(Drop(cmd, 1)) /\ AdvanceAccepted(IntOf(Drop(cmd, 1)))
                  THEN Cmd("advance", IntOf(Drop(cmd, 1)), <<>>)
                  ELSE Nop
        ELSE IF StartsWith(cmd, <<"-">>)
             THEN IF IsIntText(Drop(cmd, 1)) /\ RetreatAccepted(IntOf(Drop(cmd, 1)))
                  THEN Cmd("retreat", IntOf(Drop(cmd, 1)), <<>>)
                  ELSE Nop
        ELSE IF cmd = <<"z"," ","l","i","s","t">> THEN Nop
        ELSE IF StartsWith(cmd, <<"z"," ">>)
             THEN IF UrlAccepted(Strip(Drop(cmd, 2)))
                  THEN Cmd("url", 0, Strip(Drop(cmd, 2)))
                  ELSE Nop
        ELSE IF cmd = <<"s","y","n","c">> THEN Cmd("sync", 0, <<>>)
        ELSE IF cmd = <<"s","a","v","e">> THEN Cmd("save", 0, <<>>)
        ELSE IF cmd = <<"r","u","n">> THEN Cmd("run", 0, <<>>)
        ELSE IF cmd \in {<<"q">>, <<"q","u","i","t">>, <<"e","x","i","t">>}
             THEN Cmd("quit", 0, <<>>)
        ELSE Nop

\* the commands of the lines the model types
CommandOf == [line \in ConsoleLines |-> Command(line)]

\* a variant of line 383 without the reduction to the face
RetreatPositionUnreduced(d, minutes) == d - minutes

\* line 383
RetreatPosition(d, minutes) == (d - minutes) % FaceMinutes

\* a variant of `quit` without line 428: the loop is left by the break only
QuitModeKept == interactive_mode

\* what `quit` does to the two things the loops test (lines 428-429)
QuitMode == FALSE

\* history: what an advance command found
AdvanceEntry ==
    [on |-> TRUE, d |-> current_display_minutes, p |-> phys, t |-> nticks,
     w |-> 0, agreed |-> InStep, op |-> "advance"]

\* history: what a command that goes on to store_configuration found, and
\* the command
StoringEntry(c) ==
    [on |-> TRUE, d |-> current_display_minutes, p |-> phys, t |-> nticks,
     w |-> 0, agreed |-> InStep, op |-> c.op, n |-> c.n, s |-> c.s,
     u |-> time_service_url, f |-> file]

\* history: what `quit` found
QuitEntry ==
    [on |-> TRUE, d |-> current_display_minutes, u |-> time_service_url,
     f |-> file, p |-> phys, r |-> rtc, t |-> nticks, w |-> 0,
     depth |-> Len(stack)]

\* lines 338-432: the line is read and its command run, up to the first
\* call of tick(), store_configuration(), sync_rtc_online() or start()
ConsoleInputOf(line) ==
    /\ pc = "c_input"
    /\   LET c == CommandOf[line]
         IN  /\ c.op # "nop" => ncommands < MaxCommands
             /\ ncommands' = IF c.op = "nop" THEN ncommands ELSE ncommands + 1
             /\ cmd0' = IF c.op = "advance" THEN AdvanceEntry
                        ELSE IF c.op \in {"set", "retreat", "url", "save"}
                        THEN StoringEntry(c)
                        ELSE Null
             /\ current_display_minutes' =
                    CASE c.op = "set"     -> c.n
                      [] c.op = "retreat" ->
                           RetreatPosition(current_display_minutes, c.n)
                      [] OTHER            -> current_display_minutes
             /\ time_service_url' =
                    IF c.op = "url" THEN c.s ELSE time_service_url
             /\ interactive_mode' =
                    CASE c.op = "run"  -> FALSE
                      [] c.op = "quit" -> QuitMode
                      [] OTHER         -> interactive_mode
             /\ pc' = CASE c.op \in {"set", "retreat", "url", "save"} -> "c_store"
                        [] c.op = "advance" -> "c_adv"
                        [] c.op = "sync"    -> "c_sync"
                        [] c.op = "run"     -> "s_read"
                        [] c.op = "quit"    -> "c_ret"
                        [] OTHER            -> "c_loop"
             /\ stack' = IF c.op = "run" THEN Append(stack, "start") ELSE stack
             /\ adv_minutes' = IF c.op = "advance" THEN c.n ELSE 0
             /\ quit0' = IF c.op = "quit" THEN QuitEntry ELSE quit0
    /\ adv_i' = 0
    /\ UNCHANGED <<hwVars, last_sync_hour, current_timevalue,
                   target_display_minutes, file, phys, events, nticks,
                   nminutes, wr, wk, tk, it, lost, out>>

ConsoleInput == \E line \in ConsoleLines : ConsoleInputOf(line)

\* a variant of line 367 that runs the loop once more
RangeContinuesInclusive(i, minutes) == i <= minutes

\* line 367: range(minutes)
RangeContinues(i, minutes) == i < minutes

\* lines 367-368: the advance loop
ConsoleAdvance ==
    /\ pc = "c_adv"
    /\ IF RangeContinues(adv_i, adv_minutes)
       THEN /\ nticks < MaxTicks
            /\ nticks' = nticks + 1
            /\ pc' = "t_en"
            /\ tk' = TickEntry
       ELSE /\ pc' = "c_advdone"
            /\ UNCHANGED <<nticks, tk>>
    /\ UNCHANGED <<objVars, hwVars, stack, locVars, file, phys, events,
                   ncommands, nminutes, wr, wk, cmd0, quit0, it, lost, out>>

\* lines 371-372
ConsoleAdvanceDone ==
    /\ pc = "c_advdone"
    /\ pc' = "c_loop"
    /\ UNCHANGED <<objVars, hwVars, stack, locVars, envVars, histVars>>

\* the console returns to the except clause of the start() that called it
\* (line 493)
ConsoleReturn ==
    /\ pc = "c_ret"
    /\ stack' = Pop(stack)
    /\ pc' = "s_ret"
    /\ UNCHANGED <<objVars, hwVars, locVars, envVars, histVars>>

\* start() returns: to main.py, which ends, or into the `run` branch of
\* the console that called it (line 424), which goes on to the loop test
StartReturn ==
    /\ pc = "s_ret"
    /\ IF Len(stack) <= 1
       THEN stack' = <<>> /\ pc' = "done"
       ELSE stack' = Pop(stack) /\ pc' = "c_loop"
    /\ UNCHANGED <<objVars, hwVars, locVars, envVars, histVars>>

(***************************************************************************)
(* The environment: Ctrl+C and power loss.                                 *)
(***************************************************************************)
\* program points inside the try of the console loop (lines 337-432)
ConsoleTryPcs == {"c_input", "c_sync", "c_adv", "c_advdone", "c_store",
                  "c_write"} \cup TickPcs

\* a variant of start() whose handler swallows the interrupt and goes round
\* the loop again instead of calling the console
InterruptToLoop ==
    IF Top = "start" /\ pc # "s_ret"
    THEN [stack |-> stack, pc |-> "s_read"]
    ELSE IF Top = "console" /\ pc \in ConsoleTryPcs
    THEN [stack |-> stack, pc |-> "c_loop"]
    ELSE IF Top = "console"
    THEN LeaveStart(Pop(stack))
    ELSE LeaveStart(stack)

\* where a KeyboardInterrupt raised at pc takes control: start()'s except
\* clause (lines 491-493) calls the console; the console's (lines 434-435)
\* goes on to the loop test; raised anywhere else it leaves the frame
InterruptTo ==
    IF Top = "start" /\ pc # "s_ret"
    THEN [stack |-> Append(stack, "console"), pc |-> "c_enter"]
    ELSE IF Top = "console" /\ pc \in ConsoleTryPcs
    THEN [stack |-> stack, pc |-> "c_loop"]
    ELSE IF Top = "console"
    THEN LeaveStart(Pop(stack))
    ELSE LeaveStart(stack)

Interrupt ==
    /\ pc \notin {"off", "done", "failed"}
    /\ Event
    /\ stack' = InterruptTo.stack
    /\ pc' = InterruptTo.pc
    /\ file' \in (IF pc \in WritePcs THEN Torn(file) ELSE {file})
    /\ ResetLocals
    /\ wk' = Null /\ tk' = Null /\ it' = Null /\ cmd0' = Null
    /\ UNCHANGED <<objVars, hwVars, phys, ncommands, nticks, nminutes, wr, quit0, lost, out>>

\* power is lost: memory and pins are gone, the file and the hand stay; a
\* write in progress leaves the old content, a truncated file or the new
\* content
PowerLoss ==
    /\ pc # "off"
    /\ Event
    /\ file' \in (IF pc \in WritePcs
                  THEN Torn(file) \cup
                       {RecordOf(current_display_minutes, time_service_url)}
                  ELSE {file})
    /\ lost' = [on |-> TRUE,
                agreed |-> /\ pc \in TickPcs \cup {"s_walk", "c_adv"}
                           /\ \/ wk.on /\ wk.agreed
                              \/ cmd0.on /\ cmd0.agreed]
    /\ rtc' \in InitTimes
    /\ current_display_minutes' = 0
    /\ time_service_url' = DEFAULT_TIME_SERVICE_URL
    /\ interactive_mode' = FALSE
    /\ pin_nenabled' = 1 /\ pin_step' = 0 /\ pin_led' = 1
    /\ stack' = <<>> /\ pc' = "off"
    /\ ResetLocals
    /\ wr' = NoWrite
    /\ wk' = Null /\ tk' = Null /\ cmd0' = Null /\ quit0' = Null /\ it' = Null
    /\ UNCHANGED <<phys, ncommands, nticks, nminutes, out>>

(***************************************************************************)
(* The specification.                                                      *)
(***************************************************************************)
Next ==
    \/ Boot
    \/ StartRead
    \/ SyncOk
    \/ SyncFail
    \/ SyncRaise
    \/ Walk
    \/ Sleep
    \/ TickEnable
    \/ TickStepOn
    \/ TickStepOff
    \/ TickDisable
    \/ TickIncrement
    \/ StoreOpen
    \/ StoreDone
    \/ StoreFail
    \/ TickReturn
    \/ ConsoleEnter
    \/ ConsoleLoop
    \/ ConsoleInput
    \/ ConsoleAdvance
    \/ ConsoleAdvanceDone
    \/ ConsoleReturn
    \/ StartReturn
    \/ Interrupt

\* the controller with power losses and restarts
NextPower == Next \/ PowerLoss

Spec == Init /\ [][Next]_vars

SpecPower == Init /\ [][NextPower]_vars

\* construction alone, from every shape of persisted record
InitLoad ==
    /\ file \in LoadFiles
    /\ rtc \in InitTimes
    /\ phys = 0
    /\ current_display_minutes = 0
    /\ time_service_url = DEFAULT_TIME_SERVICE_URL
    /\ interactive_mode = FALSE
    /\ pin_nenabled = 1 /\ pin_step = 0 /\ pin_led = 1
    /\ stack = <<>> /\ pc = "off"
    /\ last_sync_hour = NoHour
    /\ current_timevalue = NoTime
    /\ target_display_minutes = 0
    /\ adv_minutes = 0 /\ adv_i = 0
    /\ events = 0 /\ ncommands = 0 /\ nticks = 0 /\ nminutes = 0
    /\ wr = NoWrite
    /\ wk = Null /\ tk = Null /\ cmd0 = Null /\ quit0 = Null /\ it = Null
    /\ lost = [on |-> FALSE, agreed |-> FALSE]
    /\ out = NoOut

NextLoad == Boot \/ PowerLoss

SpecLoad == InitLoad /\ [][NextLoad]_vars


(***************************************************************************)
(* _show_status(), lines 439-459, from every position on the face and      *)
(* every minute the RTC can show.                                          *)
(***************************************************************************)
\* "%02d" of a number below 100
Pad2(n) == <<DigitChars[(n \div 10) + 1], DigitChars[(n % 10) + 1]>>

\* "%02d:%02d" of a time's hours and minutes (lines 445, 265, 356)
FormatHHMM(tv) == Pad2(tv.hours) \o <<":">> \o Pad2(tv.minutes)

\* a variant of line 453 that folds from six hours on
StatusDiffFromHalf(display_total, rtc_total) ==
    LET diff == (rtc_total - display_total) % FaceMinutes
    IN  IF diff >= 6 * 60 THEN diff - FaceMinutes ELSE diff

\* lines 450-454
StatusDiff(display_total, rtc_total) ==
    LET diff == (rtc_total - display_total) % FaceMinutes
    IN  IF diff > 6 * 60 THEN diff - FaceMinutes ELSE diff

\* line 457, "none" when line 456 prints no difference
StatusDirection(diff) ==
    IF diff = 0 THEN "none" ELSE IF diff > 0 THEN "ahead" ELSE "behind"

\* abs(diff), line 458
Abs(n) == IF n < 0 THEN 0 - n ELSE n

\* what _show_status prints
StatusOf(d, rtc_time, url) ==
    LET diff == StatusDiff(d, calculate_display_minutes(rtc_time))
    IN  [kind |-> "status",
         display |-> FormatHHMM(display_minutes_to_time(d)),
         actual |-> rtc_time,
         url |-> url,
         minutes |-> Abs(diff),
         direction |-> StatusDirection(diff)]

ShowStatus ==
    /\ out.kind = "none"
    /\ out' = StatusOf(current_display_minutes, rtc, time_service_url)
    /\ UNCHANGED <<objVars, hwVars, ctlVars, locVars, envVars,
                   wr, wk, tk, cmd0, quit0, it, lost>>

\* the minutes the RTC can show, one time for each position of the face
StatusTimes == { TimeValue(h, m, 0) : h \in 0..11, m \in 0..59 }

InitStatus ==
    /\ current_display_minutes \in 0..(FaceMinutes - 1)
    /\ rtc \in StatusTimes
    /\ file = FileMissing
    /\ phys = 0
    /\ time_service_url = DEFAULT_TIME_SERVICE_URL
    /\ interactive_mode = TRUE
    /\ pin_nenabled = 1 /\ pin_step = 0 /\ pin_led = 1
    /\ stack = <<"start", "console">> /\ pc = "c_input"
    /\ last_sync_hour = NoHour
    /\ current_timevalue = NoTime
    /\ target_display_minutes = 0
    /\ adv_minutes = 0 /\ adv_i = 0
    /\ events = 0 /\ ncommands = 0 /\ nticks = 0 /\ nminutes = 0
    /\ wr = NoWrite
    /\ wk = Null /\ tk = Null /\ cmd0 = Null /\ quit0 = Null /\ it = Null
    /\ lost = [on |-> FALSE, agreed |-> FALSE]
    /\ out = NoOut

NextStatus == ShowStatus

SpecStatus == InitStatus /\ [][NextStatus]_vars

(***************************************************************************)
(* The conversions on their own: display_minutes_to_time and               *)
(* calculate_display_minutes from every position of the face, and          *)
(* parse_time_string, calculate_display_minutes, display_minutes_to_time   *)
(* and the "%02d:%02d" formatting from time strings.                       *)
(***************************************************************************)
\* time strings HH:MM and HH:MM:SS, every hour of the day
TimeStrings ==
    { Pad2(h) \o <<":">> \o Pad2(m) : h \in 0..23, m \in {0, 5, 59} }
    \cup { Pad2(h) \o <<":">> \o Pad2(m) \o <<":">> \o Pad2(sec) :
              h \in 0..23, m \in {0, 5, 59}, sec \in {0, 59} }

\* lines 214-228 and then line 179
RoundTripOf(p) ==
    LET t == display_minutes_to_time(p)
    IN  [kind |-> "roundtrip", p |-> p, time |-> t,
         back |-> calculate_display_minutes(t)]

ToTimeAndBack ==
    /\ out.kind = "none"
    /\ \E p \in 0..(FaceMinutes - 1) : out' = RoundTripOf(p)
    /\ UNCHANGED <<objVars, hwVars, ctlVars, locVars, envVars,
                   wr, wk, tk, cmd0, quit0, it, lost>>

\* lines 353-356: the string is parsed, made a position, and the time of
\* that position is printed as "%02d:%02d"
ParsedOf(text) ==
    LET r == parse_time_string(text)
    IN  [kind |-> "parsed", text |-> text, ok |-> r.ok,
         shown |-> IF r.ok
                   THEN FormatHHMM(display_minutes_to_time(
                                       calculate_display_minutes(r.tv)))
                   ELSE <<>>]

ParseAndFormat ==
    /\ out.kind = "none"
    /\ \E text \in TimeStrings : out' = ParsedOf(text)
    /\ UNCHANGED <<objVars, hwVars, ctlVars, locVars, envVars,
                   wr, wk, tk, cmd0, quit0, it, lost>>

InitCodec ==
    /\ current_display_minutes = 0
    /\ rtc = NoTime
    /\ file = FileMissing
    /\ phys = 0
    /\ time_service_url = DEFAULT_TIME_SERVICE_URL
    /\ interactive_mode = TRUE
    /\ pin_nenabled = 1 /\ pin_step = 0 /\ pin_led = 1
    /\ stack = <<"start", "console">> /\ pc = "c_input"
    /\ last_sync_hour = NoHour
    /\ current_timevalue = NoTime
    /\ target_display_minutes = 0
    /\ adv_minutes = 0 /\ adv_i = 0
    /\ events = 0 /\ ncommands = 0 /\ nticks = 0 /\ nminutes = 0
    /\ wr = NoWrite
    /\ wk = Null /\ tk = Null /\ cmd0 = Null /\ quit0 = Null /\ it = Null
    /\ lost = [on |-> FALSE, agreed |-> FALSE]
    /\ out = NoOut

NextCodec == ToTimeAndBack \/ ParseAndFormat

SpecCodec == InitCodec /\ [][NextCodec]_vars

(***************************************************************************)
(* Properties.                                                             *)
(***************************************************************************)
\* the ticks a forward-only walk needs from position d to target t
Remaining(d, t) == IF d = t THEN 0 ELSE ((t - d - 1) % FaceMinutes) + 1

\* the position the file would yield if it were loaded now
Persisted == LoadedFrom(file).display

\* the distance, in step pulses round the face, between position d and the
\* physical hand
HandDistance(d, p) ==
    LET k == (p - (d % FaceMinutes) * StepsPerMinute) % FaceSteps
    IN  IF k <= FaceSteps - k THEN k ELSE FaceSteps - k

\* the controller has just been constructed and start() has not yet read
\* the RTC
FreshBoot == pc = "s_read" /\ Len(stack) = 1 /\ ~it.on

\* C1, as stated: a walk from P to T ends after exactly (T - P) mod 720
\* ticks with the in-memory and the persisted position both equal to T.
C1_WalkAsStated ==
    (wk.on /\ pc = "s_sleep") =>
        /\ wk.n = (target_display_minutes - wk.p) % FaceMinutes
        /\ current_display_minutes = target_display_minutes
        /\ Persisted = target_display_minutes

\* C1, amended: at the head of the walk's loop and at its end, the ticks
\* done plus the forward distance still to go equal the forward distance
\* from P to T (0 when P = T, else ((T - P - 1) mod 720) + 1), the position
\* is P raised by one modulo 720 per tick done; at the end the in-memory
\* position is T, and the persisted position is T when at least one tick
\* was made and the last write succeeded.
C1_ForwardWalk ==
    (wk.on /\ pc \in {"s_walk", "s_sleep"}) =>
        /\ wk.n + Remaining(current_display_minutes, target_display_minutes)
             = Remaining(wk.p, target_display_minutes)
        /\ wk.n = 0 => current_display_minutes = wk.p
        /\ wk.n > 0 => current_display_minutes = (wk.p + wk.n) % FaceMinutes
        /\ pc = "s_sleep" =>
             /\ current_display_minutes = target_display_minutes
             /\ wk.n = Remaining(wk.p, target_display_minutes)
             /\ (wk.n > 0 /\ wr.res = "ok") =>
                    Persisted = target_display_minutes

\* C1, witness: a walk of two ticks through the wrap (718 -> 719 -> 0) has
\* ended and its last write succeeded.
C1_WrappedWalkEnded ==
    /\ pc = "s_sleep" /\ wk.on
    /\ wk.n = 2 /\ wk.p = FaceMinutes - 2
    /\ target_display_minutes = 0
    /\ current_display_minutes = 0
    /\ wr.res = "ok" /\ Persisted = 0

\* C2: once the controller is constructed, the in-memory display position
\* is an integer in 0..719.
C2_PositionOnFace ==
    pc # "off" => current_display_minutes \in 0..(FaceMinutes - 1)

\* C3: after a power loss during a sequence of ticks (a walk or an advance
\* loop) that began with the hand, the in-memory position and the persisted
\* position in agreement, the position loaded at the restart is within one
\* tick (two step pulses) of the hand.
C3_LossWithinOneTick ==
    (FreshBoot /\ lost.on /\ lost.agreed) =>
        HandDistance(current_display_minutes, phys) <= StepsPerMinute

\* C4: when a tick() returns the hand has moved one minute (two pulses), the
\* position has advanced by one modulo 720 and exactly one write of the new
\* position has been attempted within the tick; whenever a walk or an
\* advance loop is about to start a tick or has ended, it has attempted as
\* many writes as it has completed ticks.
C4_TickMovesAndStores ==
    /\ (tk.on /\ pc = "t_ret") =>
          /\ current_display_minutes = (tk.d + 1) % FaceMinutes
          /\ phys = (tk.p + 2) % FaceSteps
          /\ tk.w = 1
          /\ wr.res \in {"ok", "failed"}
          /\ wr.d = current_display_minutes
    /\ (tk.on /\ pc \in (TickPcs \ {"t_write", "t_ret"})) => tk.w = 0
    /\ (wk.on /\ pc \in {"s_walk", "t_en", "s_sleep"}) => wk.w = wk.n
    /\ (cmd0.on /\ pc \in {"c_adv", "t_en", "c_advdone"}) => cmd0.w = adv_i

\* C4, witness: the second tick of a walk returns, with two writes attempted
\* in the walk so far.
C4_SecondTickStored ==
    /\ pc = "t_ret" /\ tk.on /\ wk.on
    /\ wk.n = 1 /\ wk.w = 2 /\ tk.w = 1
    /\ wr.res = "ok"
    /\ file = RecordOf(current_display_minutes, time_service_url)

\* the records C5 lists: no file, truncated or non-JSON content, a JSON
\* value that is not an object, a "display" that is a string, null or a list
Defective(f) ==
    \/ f.kind # "object"
    \/ f.display.t \in {"str", "null", "list"}

\* C5: construction never fails in load_configuration, and from a defective
\* record it yields the defaults.
C5_LoadNeverRaises ==
    /\ pc # "failed"
    /\ (FreshBoot /\ Defective(file)) =>
          /\ current_display_minutes = 0
          /\ time_service_url = DEFAULT_TIME_SERVICE_URL

\* C6: once a quit is accepted nothing but the unwinding of the nested
\* activations happens: control is at a console's or loop's return, or at
\* a console loop test that fails, or the program has ended; no command is
\* read, and no tick, sync or write happens (the hand, the RTC, the file and
\* the configuration are as the quit found them).
C6_QuitIsFinal ==
    quit0.on =>
        /\ pc \in {"c_ret", "s_ret", "c_loop", "done"}
        /\ pc = "c_loop" => ~interactive_mode
        /\ Len(stack) <= quit0.depth
        /\ nticks = quit0.t /\ quit0.w = 0
        /\ phys = quit0.p /\ rtc = quit0.r /\ file = quit0.f
        /\ current_display_minutes = quit0.d
        /\ time_service_url = quit0.u

\* C6, witness: a quit typed in the second console (two interrupts, one run:
\* four nested activations) has ended the program.
C6_NestedQuitEnded ==
    /\ quit0.on /\ quit0.depth = 4
    /\ pc = "done" /\ stack = <<>>

\* C7: an iteration of the Running loop attempts a sync exactly when the
\* hour it read differs from the hour read by the iteration of the last
\* attempt (none at the start of a start()), hence in the first iteration
\* of every start() and afterwards exactly when the hour read differs from
\* the hour the iteration before read.
C7_SyncOncePerHour ==
    /\ (it.on /\ Top = "start" /\ pc = "s_sync") =>
          /\ ~it.synced
          /\ it.cur # it.last
    /\ (it.on /\ Top = "start" /\ pc \in {"s_walk", "s_sleep"} \cup TickPcs) =>
          /\ it.synced <=> (it.cur # it.last)
          /\ it.synced <=> (it.n = 1 \/ it.cur # it.prev)
          /\ it.n = 1 => (it.last = NoHour /\ it.synced)

\* C7, witness: the second iteration of a start() read the same hour as the
\* first and goes on to the walk without a sync attempt.
C7_SameHourNoSync ==
    /\ it.on /\ Top = "start" /\ pc = "s_walk"
    /\ it.n = 2 /\ it.cur = it.prev
    /\ ~it.synced

\* C8: when an error raised while a command is serviced (also by the loop
\* that `run` started) is caught by the console, the console loop goes on:
\* its loop test passes.
C8_ErrorKeepsConsole ==
    [][(SyncRaise /\ pc' = "c_loop") => interactive_mode']_vars

\* the `+N` lines the model types with N zero, negative or not a number
RejectedAdvances == { <<"+","0">>, <<"+","-","1">>, <<"+","x">> }

\* C9: `+0`, `+-1` and `+x` go back to the prompt with no tick, no write and
\* no change of position, endpoint, file or hand; `+2` starts an advance of
\* two; an advance of N has made as many ticks as its loop counts, and when
\* its loop ends it has made exactly N, the position being (old + N) mod 720
\* and the hand N minutes on.
C9_Advance ==
    /\ [][ /\ \A line \in RejectedAdvances :
                ConsoleInputOf(line) =>
                    /\ pc' = "c_loop"
                    /\ UNCHANGED <<current_display_minutes, time_service_url,
                                   file, phys, nticks, wr>>
           /\ ConsoleInputOf(<<"+","2">>) =>
                    /\ pc' = "c_adv" /\ adv_minutes' = 2
                    /\ UNCHANGED <<current_display_minutes, file, phys, nticks>>
         ]_vars
    /\ [](cmd0.on /\ pc = "c_adv" =>
             /\ adv_i = nticks - cmd0.t
             /\ adv_i <= adv_minutes)
    /\ [](cmd0.on /\ pc = "c_advdone" =>
             /\ adv_minutes > 0
             /\ nticks - cmd0.t = adv_minutes
             /\ current_display_minutes = (cmd0.d + adv_minutes) % FaceMinutes
             /\ phys = (cmd0.p + 2 * adv_minutes) % FaceSteps)

\* C9, witness: the loop of `+2` has ended.
C9_AdvanceOfTwoDone ==
    /\ pc = "c_advdone" /\ cmd0.on
    /\ adv_minutes = 2 /\ nticks - cmd0.t = 2

\* C10: right after a write failed inside tick(), control is at the tick's
\* return with the position advanced by one; a walk in which a write failed
\* keeps counting (position = start + ticks done, modulo 720) and ends with
\* the position equal to its target.
C10_FailedWriteTolerated ==
    /\ (tk.on /\ tk.failed) =>
          /\ pc = "t_ret"
          /\ wr.res = "failed"
          /\ current_display_minutes = (tk.d + 1) % FaceMinutes
    /\ (wk.on /\ wk.failed /\ pc \in {"s_walk", "s_sleep"}) =>
          /\ wk.n > 0
          /\ current_display_minutes = (wk.p + wk.n) % FaceMinutes
    /\ (wk.on /\ wk.failed /\ pc = "s_sleep") =>
          current_display_minutes = target_display_minutes

\* C10, witness: a walk of two ticks, one of whose writes failed, has ended
\* at its target.
C10_WalkEndedDespiteFailure ==
    /\ pc = "s_sleep" /\ wk.on /\ wk.failed
    /\ wk.n = 2
    /\ current_display_minutes = target_display_minutes

\* C11: a sync that fails inside sync_rtc_online leaves the RTC as it was and
\* returns to its caller, the Running loop going on to the walk (the console
\* to its prompt); the iteration goes on to walk and sleep with the RTC as
\* it was read and the hour recorded, and a later iteration that reads the
\* same hour as the one before it makes no new attempt.
C11_FailedSyncNonFatal ==
    /\ [][SyncFail =>
             /\ rtc' = rtc
             /\ stack' = stack
             /\ pc' = IF pc = "s_sync" THEN "s_walk" ELSE "c_loop"
             /\ pc = "s_sync" => last_sync_hour' = current_timevalue.hours
         ]_vars
    /\ []((/\ it.on /\ Top = "start"
           /\ pc \in {"s_walk", "s_sleep"} \cup TickPcs
           /\ it.synced /\ it.res = "failed") =>
             /\ rtc = current_timevalue
             /\ last_sync_hour = it.cur)
    /\ []((/\ it.on /\ Top = "start"
           /\ pc \in {"s_sync", "s_walk", "s_sleep"} \cup TickPcs
           /\ it.n > 1 /\ it.res = "failed" /\ it.cur = it.prev) =>
             /\ pc # "s_sync"
             /\ ~it.synced)

\* C11, witness: the iteration after a failed sync read the same hour, made
\* no attempt, walked and reached its sleep.
C11_SleepAfterFailedSync ==
    /\ it.on /\ Top = "start" /\ pc = "s_sleep"
    /\ it.n = 2 /\ it.res = "failed" /\ ~it.synced
    /\ it.cur = it.prev
    /\ rtc = current_timevalue

\* the signed difference a status line reports
Reported(o) == IF o.direction = "behind" THEN 0 - o.minutes ELSE o.minutes

\* C12: for a display position d and an authoritative position a on the
\* face, the difference the status reports is congruent to a - d modulo
\* 720 and lies in -359..360; it is (a - d) mod 720, less 720 when that
\* exceeds 360; it is reported "ahead" when positive and "behind" when
\* negative; display 700 with authoritative 10 gives 30 ahead, display 10
\* with authoritative 700 gives 30 behind.
C12_StatusDifference ==
    out.kind = "status" =>
        LET d == current_display_minutes
            a == rtc.hours * 60 + rtc.minutes
            raw == (a - d) % 720
            r == Reported(out)
        IN  /\ r \in (0 - 359)..360
            /\ (r - (a - d)) % 720 = 0
            /\ r = IF raw > 360 THEN raw - 720 ELSE raw
            /\ out.direction = "ahead" <=> r > 0
            /\ out.direction = "behind" <=> r < 0
            /\ out.direction = "none" <=> r = 0
            /\ (d = 700 /\ a = 10) =>
                   (out.minutes = 30 /\ out.direction = "ahead")
            /\ (d = 10 /\ a = 700) =>
                   (out.minutes = 30 /\ out.direction = "behind")

\* C12, witness: display 10 with authoritative 700 has been reported as 30
\* behind.
C12_ThirtyBehind ==
    /\ out.kind = "status"
    /\ current_display_minutes = 10
    /\ rtc = TimeValue(11, 40, 0)
    /\ out.minutes = 30 /\ out.direction = "behind"

\* C13: for every position p of the face, the position of the time of p is
\* p; the time of p has hour 12 where p is below 60, an hour in 1..12
\* always, and minute p mod 60.
C13_PositionRoundTrip ==
    out.kind = "roundtrip" =>
        /\ out.back = out.p
        /\ out.time.hours \in 1..12
        /\ out.p < 60 <=> out.time.hours = 12
        /\ out.time.minutes = out.p % 60
        /\ (out.time.hours % 12) * 60 + out.time.minutes = out.p

\* C13, witness: position 30 has gone to 12:30 and back to 30.
C13_HalfPastTwelve ==
    /\ out.kind = "roundtrip" /\ out.p = 30
    /\ out.time = TimeValue(12, 30, 0)
    /\ out.back = 30

\* the hour a two-digit text HH... names
HourTyped(text) == 10 * DigitVal(text[1]) + DigitVal(text[2])

\* C14, as stated: every valid HH:MM or HH:MM:SS comes back, through
\* parsing, position, time and formatting, as the same HH:MM.
C14_SameHHMM ==
    out.kind = "parsed" =>
        /\ out.ok
        /\ out.shown = SubSeq(out.text, 1, 5)

\* C14, amended: every valid two-digit HH:MM or HH:MM:SS comes back with its
\* minutes unchanged and its hour on the twelve-hour face (12 for hours 00
\* and 12, the hour less 12 for 13..23), hence as the same HH:MM exactly
\* when the hour is 01..12.
C14_TwelveHourHHMM ==
    out.kind = "parsed" =>
        LET h == HourTyped(out.text)
            h12 == IF h % 12 = 0 THEN 12 ELSE h % 12
        IN  /\ out.ok
            /\ out.shown = Pad2(h12) \o SubSeq(out.text, 3, 5)
            /\ (out.shown = SubSeq(out.text, 1, 5)) <=> h \in 1..12

\* C14, witness: 13:05:59 has come back as 01:05.
C14_AfternoonShown ==
    /\ out.kind = "parsed"
    /\ out.text = <<"1","3",":","0","5",":","5","9">>
    /\ out.shown = <<"0","1",":","0","5">>

\* the `-N` lines the model types with N zero, negative or not a number
RejectedRetreats == { <<"-","0">>, <<"-","-","1">>, <<"-","x">> }

\* C15: `-0`, `--1` and `-x` go back to the prompt with no tick, no write
\* and no change of position, endpoint, file or hand; `-2` sets the
\* position to (old - 2) mod 720 and goes on to store_configuration; from
\* a `-N` until the prompt is back no tick is made and the hand stays, the
\* position is (old - N) mod 720, exactly one write of it is attempted, and
\* once that write has succeeded the file holds it.
C15_Retreat ==
    /\ [][ /\ \A line \in RejectedRetreats :
                ConsoleInputOf(line) =>
                    /\ pc' = "c_loop"
                    /\ UNCHANGED <<current_display_minutes, time_service_url,
                                   file, phys, nticks, wr>>
           /\ ConsoleInputOf(<<"-","2">>) =>
                    /\ pc' = "c_store"
                    /\ current_display_minutes'
                         = (current_display_minutes - 2) % 720
                    /\ UNCHANGED <<time_service_url, file, phys, nticks>>
         ]_vars
    /\ []((cmd0.on /\ cmd0.op = "retreat") =>
             /\ pc \in {"c_store", "c_write", "c_loop"}
             /\ cmd0.n > 0
             /\ current_display_minutes = (cmd0.d - cmd0.n) % 720
             /\ nticks = cmd0.t /\ phys = cmd0.p
             /\ time_service_url = cmd0.u
             /\ pc = "c_store" => (cmd0.w = 0 /\ file = cmd0.f)
             /\ pc = "c_write" => (cmd0.w = 1 /\ wr.d = current_display_minutes)
             /\ pc = "c_loop" =>
                    /\ cmd0.w = 1
                    /\ wr.res \in {"ok", "failed"}
                    /\ wr.res = "ok" =>
                         file = RecordOf(current_display_minutes,
                                         time_service_url))

\* C15, witness: `-2` at position 0 has set 718 and stored it.
C15_RetreatThroughWrap ==
    /\ cmd0.on /\ cmd0.op = "retreat" /\ pc = "c_loop"
    /\ cmd0.d = 0 /\ cmd0.n = 2
    /\ current_display_minutes = 718
    /\ wr.res = "ok" /\ Persisted = 718

\* the `t` lines the model types with an out-of-range or malformed time
RejectedTimes ==
    { <<"t"," ","2","4",":","0","0">>,
      <<"t"," ","1","1">>,
      <<"t"," ","1","1",":","x","x">> }

\* the `t` lines the model types with a valid time; both name position 718
AcceptedTimes ==
    { <<"t"," ","1","1",":","5","8">>,
      <<"t"," ","2","3",":","5","8",":","0","9">> }

\* C16: `t 24:00`, `t 11` and `t 11:xx` go back to the prompt with no tick,
\* no write and no change of position, endpoint, file or hand; `t 11:58`
\* and `t 23:58:09` set the position to 718 and go on to
\* store_configuration; from a `t` until the prompt is back no tick is made
\* and the hand stays, exactly one write of the new position is attempted,
\* and once that write has succeeded the file holds it.
C16_SetTime ==
    /\ [][ /\ \A line \in RejectedTimes :
                ConsoleInputOf(line) =>
                    /\ pc' = "c_loop"
                    /\ stack' = stack /\ interactive_mode' = interactive_mode
                    /\ UNCHANGED <<current_display_minutes, time_service_url,
                                   file, phys, nticks, wr>>
           /\ \A line \in AcceptedTimes :
                ConsoleInputOf(line) =>
                    /\ pc' = "c_store"
                    /\ current_display_minutes' = 11 * 60 + 58
                    /\ UNCHANGED <<time_service_url, file, phys, nticks>>
         ]_vars
    /\ []((cmd0.on /\ cmd0.op = "set") =>
             /\ pc \in {"c_store", "c_write", "c_loop"}
             /\ current_display_minutes = cmd0.n
             /\ current_display_minutes \in 0..719
             /\ nticks = cmd0.t /\ phys = cmd0.p
             /\ time_service_url = cmd0.u
             /\ pc = "c_store" => (cmd0.w = 0 /\ file = cmd0.f)
             /\ pc = "c_write" => (cmd0.w = 1 /\ wr.d = current_display_minutes)
             /\ pc = "c_loop" =>
                    /\ cmd0.w = 1
                    /\ wr.res \in {"ok", "failed"}
                    /\ wr.res = "ok" =>
                         file = RecordOf(current_display_minutes,
                                         time_service_url))

\* C16, witness: a `t` typed at a position other than 718 has set 718 and
\* stored it, the hand staying where it was.
C16_TimeSetAndStored ==
    /\ cmd0.on /\ cmd0.op = "set" /\ pc = "c_loop"
    /\ cmd0.d # 718
    /\ current_display_minutes = 718
    /\ wr.res = "ok" /\ Persisted = 718
    /\ phys = cmd0.p

\* the endpoint the operator types in `z http://h/A`
TypedUrl == <<"h","t","t","p",":","/","/","h","/","A">>

\* C17: after `z http://h/A` the endpoint is exactly the typed
\* "http://h/A" and the console goes on to store_configuration; after
\* `z ftp://h` the endpoint is unchanged, no write is attempted and the
\* prompt is back.
C17_UrlAsEntered ==
    [][ /\ ConsoleInputOf(<<"z"," ">> \o TypedUrl) =>
              /\ time_service_url' = TypedUrl
              /\ pc' = "c_store"
        /\ ConsoleInputOf(<<"z"," ","f","t","p",":","/","/","h">>) =>
              /\ pc' = "c_loop"
              /\ UNCHANGED <<time_service_url, file, wr>>
      ]_vars

\* a "display" field that is present and valid: an integer on the face
ValidDisplay(j) == j.t = "int" /\ j.n \in 0..719

\* a "timezone_url" field that is present and valid: a string
ValidUrl(j) == j.t = "str"

\* C18: once the constructor has returned, having loaded a record that is a
\* JSON object, a valid "display" is the position and a valid "timezone_url" is the
\* endpoint, whatever the other field holds; a record with only "display"
\* has the default endpoint, and a record with only "timezone_url" has
\* position 0.
C18_FieldsIndependent ==
    (pc = "s_read" /\ file.kind = "object") =>
        /\ ValidDisplay(file.display) =>
               current_display_minutes = file.display.n
        /\ ValidUrl(file.url) => time_service_url = file.url.s
        /\ (ValidDisplay(file.display) /\ file.url.t = "absent") =>
               time_service_url = DEFAULT_TIME_SERVICE_URL
        /\ (ValidUrl(file.url) /\ file.display.t = "absent") =>
               current_display_minutes = 0

\* C19: when the walk of a Running iteration has ended (start() is about to
\* sleep), the position is the one of the time the RTC holds after that
\* iteration's sync step.
C19_WalkReachesSyncedTime ==
    (pc = "s_sleep" /\ it.on) =>
        current_display_minutes = calculate_display_minutes(rtc)

\* C20: an interrupt that arrives after a tick was called finds the tick
\* either not begun (the hand and the in-memory position as at its call) or
\* whole (the hand one minute, two steps, further and the in-memory
\* position one further), so that hand and position stay in lock-step.
C20_TickAtomic ==
    [][ (Interrupt /\ tk.on) =>
            \/ /\ phys = tk.p
               /\ current_display_minutes = tk.d
            \/ /\ phys = (tk.p + StepsPerMinute) % FaceSteps
               /\ current_display_minutes = NextPosition(tk.d)
      ]_vars

\* C21: in every state in which the constructed controller is not inside
\* tick() (reading the time, in a sync, between the ticks of a walk or an
\* advance, asleep, in the console) the stepper driver is disabled and the
\* step line is deasserted.
C21_DriverIdleOutsideTick ==
    (pc \notin TickPcs \cup {"off", "failed"}) =>
        /\ pin_nenabled = 1
        /\ pin_step = 0

\* the controller waits: for a line at the console prompt, or in the sleep
\* to the next minute
Waiting == pc \in {"c_input", "s_sleep"}

\* C22: whenever the controller waits and the last write attempt, if any,
\* did not fail, the persisted record is the in-memory configuration: the
\* display position and the endpoint.
C22_RecordCurrentWhenWaiting ==
    (Waiting /\ wr.res # "failed") =>
        file = RecordOf(current_display_minutes, time_service_url)

\* program points of the body of start()'s loop (lines 474-489), the ticks
\* of its walk included
LoopBodyPcs == {"s_read", "s_sync", "s_walk", "s_sleep"} \cup TickPcs

\* the autonomous loop is in control
Running == Top = "start" /\ pc \in LoopBodyPcs

\* the lines the model types that are the `run` command
RunLines == { line \in ConsoleLines : CommandOf[line].op = "run" }

\* C23: an interrupt at any point of the body of the Running loop opens the
\* console on top of the interrupted start(), with the in-memory position
\* and endpoint unchanged, and the console sets the interactive flag before
\* its first prompt; the loop is in control again only through a `run`
\* command (or at power-on); while the console is in control no minute
\* sleep is made, the hand moves only in a `+N` advance, and the RTC is set
\* only by the `sync` command; the loop's program points are never current
\* while the console is in control.
C23_InterruptSuspendsLoop ==
    /\ [][ /\ (Interrupt /\ Running) =>
                 /\ stack' = Append(stack, "console")
                 /\ pc' = "c_enter"
                 /\ UNCHANGED <<current_display_minutes, time_service_url>>
           /\ (~ Running /\ Running') =>
                 \/ pc = "off"
                 \/ \E line \in RunLines : ConsoleInputOf(line)
           /\ Top = "console" =>
                 /\ nminutes' = nminutes
                 /\ phys' # phys => (cmd0.on /\ cmd0.op = "advance")
                 /\ rtc' # rtc => pc = "c_sync"
         ]_vars
    /\ [](/\ pc \in {"s_read", "s_sync", "s_walk", "s_sleep"} => Top = "start"
          /\ (Top = "console" /\ pc = "c_input") => interactive_mode
          /\ (Top = "console" /\ pc \in TickPcs) =>
                 (cmd0.on /\ cmd0.op = "advance"))

\* C23, witness: the walk of the Running loop was interrupted after its
\* first tick, and the console, opened on top of that start(), is at its
\* prompt with the position the tick left.
C23_PromptAfterInterruptedWalk ==
    /\ stack = <<"start", "console">> /\ pc = "c_input"
    /\ interactive_mode
    /\ events = 1 /\ nticks = 1 /\ ncommands = 0 /\ nminutes = 0
    /\ current_display_minutes = 718
    /\ file = RecordOf(718, UrlX)

=============================================================================
